---- MODULE Spec2Model ----
(***************************************************************************)
(* Model of src/main-app.py: the two FastAPI handlers process_products     *)
(* (/process-products) and fetch_products (/fetch-products), the helpers   *)
(* they call (generate_token, fetch_all_data, fetch_data, write_to_csv,    *)
(* upload_to_ftp, send_to_slack) and the asyncio event loop that runs the  *)
(* handlers of concurrent requests.                                        *)
(*                                                                         *)
(* Python dicts are functions whose DOMAIN is the set of keys present, so  *)
(* dict.get(k, default) is Get below.  Python None is the string None.     *)
(*                                                                         *)
(* Reading note: lines 189-190 of the source are an `except` clause whose  *)
(* body is only a comment, which Python rejects (IndentationError).  The   *)
(* model reads that clause as the empty handler it is written to be, like  *)
(* its twin at lines 267-268.                                              *)
(***************************************************************************)
EXTENDS Integers, Sequences, FiniteSets, TLC

\* ---------------------------------------------------------------- bounds
\* number of non-empty pages the upstream holds at most
MaxPages == 2

\* ------------------------------------------------------- program constants
StopMaxAttempt == 5
WaitMultiplier == 1000
WaitMax == 10000

\* two requests in flight in one event loop
Requests == {"r1", "r2"}
NoOne == "nobody"
None == "None"
Unbound == "<unbound>"
NoFile == <<>>

Suppliers == {"acme", "bolt", "cord"}
Endpoints == {"/process-products", "/fetch-products"}

\* ------------------------------------------------------------ python helpers
Get(d, k, default) == IF k \in DOMAIN d THEN d[k] ELSE default

\* truthiness of a str-or-None value (`if article_ean:`)
Truthy(v) == v # None /\ v # ""

\* str.strip() on the category strings the upstream serves
Strip(s) ==
  CASE s = " Tools " -> "Tools"
    [] s = "Garden " -> "Garden"
    [] OTHER -> s

\* --------------------------------------------------- upstream product data
VFull ==
  [article_ean |-> "E1", seller_sku_id |-> "K1", name |-> [GERMAN |-> "Hammer"],
   category_tree |-> [GERMAN |-> <<" Tools ", "Hand">>],
   multimedia |-> <<[source_url |-> "u1"], [source_url |-> "u1b"]>>]
VBare == [article_ean |-> "E2", seller_sku_id |-> "K2"]
VNoEan ==
  [seller_sku_id |-> "K3", name |-> [ENGLISH |-> "Saw"],
   category_tree |-> [ENGLISH |-> <<"Tools">>], multimedia |-> <<<<>>>>]
VEmptyEan == [article_ean |-> "", seller_sku_id |-> "K4"]
VEmptyLists ==
  [article_ean |-> "E5", seller_sku_id |-> "K5", name |-> [GERMAN |-> "Zange"],
   category_tree |-> [GERMAN |-> <<>>], multimedia |-> <<>>]
VSix ==
  [article_ean |-> "E6", seller_sku_id |-> "K6", name |-> [GERMAN |-> "Beil"],
   category_tree |-> [GERMAN |-> <<"Garden ">>],
   multimedia |-> <<[source_url |-> "u6"]>>]

SupA == [name |-> "Acme GmbH", price |-> "10.00"]
SupB == [name |-> "Bolt AG", price |-> "20.00"]

PTwoSuppliers ==
  [brand_name |-> "Brand1", tax_in_percentage |-> "19",
   suppliers |-> <<SupA, SupB>>, variants_list |-> <<VFull, VNoEan, VBare>>]
PNoSupplierKey ==
  [brand_name |-> "Brand2", tax_in_percentage |-> "7",
   variants_list |-> <<VSix>>]
PEmptySuppliers ==
  [brand_name |-> "Brand3", suppliers |-> <<>>,
   variants_list |-> <<VEmptyEan, VSix>>]
POneSupplier ==
  [brand_name |-> "Brand4", tax_in_percentage |-> "19",
   suppliers |-> <<SupB>>, variants_list |-> <<VBare>>]
PEmptyLists ==
  [brand_name |-> "Brand5", tax_in_percentage |-> "19",
   suppliers |-> <<SupA>>, variants_list |-> <<VEmptyLists>>]
PNoVariants == [brand_name |-> "Brand6", suppliers |-> <<SupA>>]

\* The product pages the upstream API holds for each supplier; page index i
\* is answered with entry i of the supplier's catalogue (the catalogue
\* repeats when more pages are asked for than it lists).
Catalogue(sup) ==
  CASE sup = "acme" -> << <<PTwoSuppliers, PNoVariants>>,
                          <<POneSupplier, PEmptyLists>> >>
    [] sup = "bolt" -> << <<POneSupplier, PEmptySuppliers, PTwoSuppliers>>,
                          <<PNoVariants, PNoSupplierKey>> >>
    [] sup = "cord" -> << <<PNoSupplierKey, POneSupplier>>,
                          <<PEmptyLists>> >>

PageOf(sup, i) == Catalogue(sup)[(i % Len(Catalogue(sup))) + 1]

\* ------------------------------------------------------------- projections
\* A projection result: the rows appended to csv_data so far and the name of
\* the exception that ended the loops ("" while none was raised).
PriceHeader == <<"GTIN", "supplier_price">>
DetailHeader ==
  <<"GTIN", "SKU", "product_name", "Supplier", "Brand", "Tax", "Category", "Image">>

RECURSIVE Flatten(_)
Flatten(data) ==
  IF data = <<>> THEN <<>> ELSE Head(data) \o Flatten(Tail(data))

\* the local supplier_price / supplier_name after the `if suppliers_data`
\* block: assigned from suppliers[0] when the list is non-empty, otherwise
\* left as the previous product left it
FirstSupplierField(item, field, previous) ==
  LET suppliers_data == Get(item, "suppliers", <<>>)
  IN  IF Len(suppliers_data) > 0
        THEN Get(suppliers_data[1], field, None)
        ELSE previous

\* body of `for variant in item.get("variants_list", [])` in write_to_csv
RECURSIVE PriceVariants(_, _, _)
PriceVariants(variants, supplier_price, acc) ==
  IF variants = <<>> \/ acc.raised # "" THEN acc
  ELSE LET variant == Head(variants)
           article_ean == Get(variant, "article_ean", None)
           next ==
             IF ~Truthy(article_ean) THEN acc
             ELSE IF supplier_price = Unbound
               THEN [acc EXCEPT !.raised = "UnboundLocalError"]
               ELSE [acc EXCEPT !.rows = Append(@, <<article_ean, supplier_price>>)]
       IN  PriceVariants(Tail(variants), supplier_price, next)

RECURSIVE PriceItems(_, _, _)
PriceItems(items, supplier_price, acc) ==
  IF items = <<>> \/ acc.raised # "" THEN acc
  ELSE LET item == Head(items)
           price == FirstSupplierField(item, "price", supplier_price)
       IN  PriceItems(Tail(items), price,
                      PriceVariants(Get(item, "variants_list", <<>>), price, acc))

\* csv_data of write_to_csv
PriceProjection(data) ==
  PriceItems(Flatten(data), Unbound, [rows |-> <<PriceHeader>>, raised |-> ""])

\* body of `for variant in item.get("variants_list", [])` in fetch_products
RECURSIVE DetailVariants(_, _, _, _, _)
DetailVariants(variants, supplier_name, Brand, Tax, acc) ==
  IF variants = <<>> \/ acc.raised # "" THEN acc
  ELSE LET variant == Head(variants)
           article_ean == Get(variant, "article_ean", None)
           seller_sku_id == Get(variant, "seller_sku_id", None)
           name == Get(Get(variant, "name", <<>>), "GERMAN", "")
           category_list == Get(Get(variant, "category_tree", <<>>), "GERMAN", <<>>)
           category == IF Len(category_list) > 0 THEN Strip(category_list[1]) ELSE ""
           multimedia == Get(variant, "multimedia", <<<<>>>>)
           next ==
             IF Len(multimedia) = 0
               THEN [acc EXCEPT !.raised = "IndexError"]
             ELSE IF ~Truthy(article_ean) THEN acc
             ELSE IF supplier_name = Unbound
               THEN [acc EXCEPT !.raised = "UnboundLocalError"]
               ELSE [acc EXCEPT !.rows =
                       Append(@, <<article_ean, seller_sku_id, name, supplier_name,
                                   Brand, Tax, category,
                                   Get(multimedia[1], "source_url", "")>>)]
       IN  DetailVariants(Tail(variants), supplier_name, Brand, Tax, next)

RECURSIVE DetailItems(_, _, _)
DetailItems(items, supplier_name, acc) ==
  IF items = <<>> \/ acc.raised # "" THEN acc
  ELSE LET item == Head(items)
           sname == FirstSupplierField(item, "name", supplier_name)
       IN  DetailItems(Tail(items), sname,
                       DetailVariants(Get(item, "variants_list", <<>>), sname,
                                      Get(item, "brand_name", None),
                                      Get(item, "tax_in_percentage", None), acc))

\* csv_data of fetch_products
DetailProjection(data) ==
  DetailItems(Flatten(data), Unbound, [rows |-> <<DetailHeader>>, raised |-> ""])

\* csv.writer.writerows: None is written as the empty field
CsvCell(v) == IF v = None THEN "" ELSE v
CsvEncode(rows) ==
  [i \in 1..Len(rows) |-> [j \in 1..Len(rows[i]) |-> CsvCell(rows[i][j])]]

\* ------------------------------------------------------------------- state
VARIABLES
  pc,          \* position of each request's handler coroutine
  endpoint,    \* route the request came in on
  supplier,    \* its `supplier` query parameter
  running,     \* the coroutine the event loop is executing, NoOne between tasks
  retryAsync,  \* whether the installed `retrying` build retries coroutines
  all_data,    \* fetch_all_data: pages collected so far
  page,        \* fetch_all_data: index of the page to request next
  attempt,     \* attempt number of the current fetch_data call
  waits,       \* milliseconds slept between the attempts of that call
  reqPage,     \* index carried by the most recent GET, -1 before the first
  lastGet,     \* how the most recent fetch_data call ended
  served,      \* the non-error responses received, with the index asked for
  csv_rows,    \* csv_data handed to csv.writer by the request
  writeResult, \* how the CSV step ended
  ftpResult,   \* how upload_to_ftp ended
  exc,         \* exception travelling to the handler's `except Exception`
  http_exc,    \* HTTPException raised inside the handler's try block
  response,    \* what the client received
  trace,       \* the pipeline steps the request has gone through
  posted,      \* the messages the request posted to the webhook
  uploaded,    \* file content the request stored on the FTP server
  files        \* local directory: file name -> content

vars ==
  <<pc, endpoint, supplier, running, retryAsync, all_data, page, attempt, waits,
    reqPage, lastGet, served, csv_rows, writeResult, ftpResult, exc, http_exc,
    response, trace, posted, uploaded, files>>

fetchVars == <<all_data, page, attempt, waits, reqPage, lastGet, served>>
sinkVars == <<csv_rows, writeResult, ftpResult, uploaded, files>>
errVars == <<exc, http_exc, response>>
reqVars == <<endpoint, supplier, retryAsync>>

NoResponse == [status |-> 0]
HTTPException(status_code, detail) == [status |-> status_code, detail |-> detail]

Filename(ep, sup) ==
  <<sup, IF ep = "/process-products" THEN "_prices.csv" ELSE "_products.csv">>
Filenames == {Filename(ep, sup) : ep \in Endpoints, sup \in Suppliers}
filename(r) == Filename(endpoint[r], supplier[r])

\* ---------------------------------------------------------------- event loop
\* mutant: the upload is awaited too (run off the loop), so the handler
\* yields between its CSV write and its upload
AwaitPointsWithUpload == {"awaiting", "upload"}

\* The positions at which a handler is suspended on an await that really
\* yields to the event loop: the aiohttp GET inside fetch_data.
AwaitPoints == {"awaiting"}

\* r may take its next step: it holds the loop, or the loop is free and r is
\* suspended on I/O that has completed
Runs(r) == running = r \/ (running = NoOne /\ pc[r] \in AwaitPoints)

\* who holds the loop once r has moved to position p
Holder(r, p) == IF p \in AwaitPoints \cup {"done"} THEN NoOne ELSE r

Goto(r, p) ==
  /\ pc' = [pc EXCEPT ![r] = p]
  /\ running' = Holder(r, p)

Step(r, name) == trace' = [trace EXCEPT ![r] = Append(@, name)]

\* send_to_slack: the POST is attempted; its boolean result (status 200 or
\* not, or a caught exception) is discarded by every caller
send_to_slack(r, message) ==
  \E delivered \in BOOLEAN : posted' = [posted EXCEPT ![r] = Append(@, message)]

\* retrying's exponential_sleep(previous_attempt_number)
RECURSIVE Pow2(_)
Pow2(n) == IF n = 0 THEN 1 ELSE 2 * Pow2(n - 1)
ExponentialSleep(previous_attempt_number) ==
  LET result == WaitMultiplier * Pow2(previous_attempt_number)
  IN  IF result > WaitMax THEN WaitMax ELSE result

Init ==
  /\ pc = [r \in Requests |-> "idle"]
  /\ endpoint = [r \in Requests |-> ""]
  /\ supplier = [r \in Requests |-> ""]
  /\ running = NoOne
  /\ retryAsync \in BOOLEAN
  /\ all_data = [r \in Requests |-> <<>>]
  /\ page = [r \in Requests |-> 0]
  /\ attempt = [r \in Requests |-> 0]
  /\ waits = [r \in Requests |-> <<>>]
  /\ reqPage = [r \in Requests |-> -1]
  /\ lastGet = [r \in Requests |-> "none"]
  /\ served = [r \in Requests |-> <<>>]
  /\ csv_rows = [r \in Requests |-> <<>>]
  /\ writeResult = [r \in Requests |-> "none"]
  /\ ftpResult = [r \in Requests |-> "none"]
  /\ exc = [r \in Requests |-> ""]
  /\ http_exc = [r \in Requests |-> NoResponse]
  /\ response = [r \in Requests |-> NoResponse]
  /\ trace = [r \in Requests |-> <<>>]
  /\ posted = [r \in Requests |-> <<>>]
  /\ uploaded = [r \in Requests |-> NoFile]
  /\ files = [f \in Filenames |-> NoFile]

\* ------------------------------------------------------------------ actions
\* a POST arrives and its handler starts running
Receive(r) ==
  /\ pc[r] = "idle"
  /\ running = NoOne
  /\ r = "r1" \/ pc["r1"] # "idle"
  /\ \E ep \in Endpoints, sup \in Suppliers :
       /\ endpoint' = [endpoint EXCEPT ![r] = ep]
       /\ supplier' = [supplier EXCEPT ![r] = sup]
  /\ Goto(r, "auth")
  /\ UNCHANGED <<retryAsync, fetchVars, sinkVars, errVars, trace, posted>>

\* generate_token, and the entry into fetch_all_data when it succeeds
GenerateToken(r) ==
  /\ pc[r] = "auth"
  /\ Runs(r)
  /\ Step(r, "AUTH")
  /\ \E status_code \in {200, 401} :
       IF status_code = 200
         THEN /\ Goto(r, "loop")
              /\ UNCHANGED exc
         ELSE /\ exc' = [exc EXCEPT ![r] = "Exception"]
              /\ Goto(r, "except")
  /\ UNCHANGED <<reqVars, fetchVars, sinkVars, http_exc, response, posted>>

\* one attempt of fetch_data: the GET for the current page goes out and the
\* coroutine is suspended until the response arrives
IssueGet(r) ==
  /\ pc[r] = "loop"
  /\ Runs(r)
  /\ attempt' = [attempt EXCEPT ![r] = @ + 1]
  /\ reqPage' = [reqPage EXCEPT ![r] = page[r]]
  /\ Goto(r, "awaiting")
  /\ UNCHANGED <<reqVars, all_data, page, waits, lastGet, served, sinkVars,
                 errVars, trace, posted>>

\* the GET answers with a non-empty page: it is appended and the loop goes on
\* (the upstream holds at most MaxPages non-empty pages)
GetPage(r) ==
  /\ pc[r] = "awaiting"
  /\ Runs(r)
  /\ page[r] < MaxPages
  /\ LET data == PageOf(supplier[r], reqPage[r])
     IN  /\ all_data' = [all_data EXCEPT ![r] = Append(@, data)]
         /\ served' = [served EXCEPT ![r] = Append(@, [page |-> reqPage[r], data |-> data])]
  /\ page' = [page EXCEPT ![r] = @ + 1]
  /\ attempt' = [attempt EXCEPT ![r] = 0]
  /\ waits' = [waits EXCEPT ![r] = <<>>]
  /\ lastGet' = [lastGet EXCEPT ![r] = "ok"]
  /\ Goto(r, "loop")
  /\ UNCHANGED <<reqVars, reqPage, sinkVars, errVars, trace, posted>>

\* the GET answers with an empty (falsy) body: `if not data: break`
GetEmpty(r) ==
  /\ pc[r] = "awaiting"
  /\ Runs(r)
  /\ served' = [served EXCEPT ![r] = Append(@, [page |-> reqPage[r], data |-> <<>>])]
  /\ lastGet' = [lastGet EXCEPT ![r] = "empty"]
  /\ attempt' = [attempt EXCEPT ![r] = 0]
  /\ waits' = [waits EXCEPT ![r] = <<>>]
  /\ Goto(r, "summary")
  /\ UNCHANGED <<reqVars, all_data, page, reqPage, sinkVars, errVars, trace, posted>>

\* The @retry decorator of fetch_data.  retrying's wrapper calls the function
\* and retries when the call raises.  A build that does not know coroutines
\* gets the coroutine object back from that call without any exception, so it
\* returns after attempt 1 and the failure only surfaces at the caller's
\* await; a coroutine-aware build sees the failure and retries until
\* stop_max_attempt_number.
ShouldRetry(r) == retryAsync /\ attempt[r] < StopMaxAttempt

\* the GET fails (raise_for_status or a network error) and is retried after
\* the exponential wait
GetFailedRetry(r) ==
  /\ pc[r] = "awaiting"
  /\ Runs(r)
  /\ ShouldRetry(r)
  /\ waits' = [waits EXCEPT ![r] = Append(@, ExponentialSleep(attempt[r]))]
  /\ Goto(r, "loop")
  /\ UNCHANGED <<reqVars, all_data, page, attempt, reqPage, lastGet, served,
                 sinkVars, errVars, trace, posted>>

\* mutant: the failure of a page fetch leaves fetch_all_data as an exception
FetchFailedRaises(r) ==
  /\ lastGet' = [lastGet EXCEPT ![r] = "fail"]
  /\ exc' = [exc EXCEPT ![r] = "ClientError"]
  /\ Goto(r, "except")

\* fetch_all_data's `except Exception: break`
FetchFailed(r) ==
  /\ lastGet' = [lastGet EXCEPT ![r] = "fail"]
  /\ exc' = exc
  /\ Goto(r, "summary")

\* the GET fails and fetch_data raises to fetch_all_data
GetFailedBreak(r) ==
  /\ pc[r] = "awaiting"
  /\ Runs(r)
  /\ ~ShouldRetry(r)
  /\ FetchFailed(r)
  /\ UNCHANGED <<reqVars, all_data, page, attempt, waits, reqPage, served,
                 sinkVars, http_exc, response, trace, posted>>

\* end of fetch_all_data: the summary message is posted, all_data returned
Summary(r) ==
  /\ pc[r] = "summary"
  /\ Runs(r)
  /\ send_to_slack(r, "summary")
  /\ Step(r, "FETCH")
  /\ Goto(r, "check")
  /\ UNCHANGED <<reqVars, fetchVars, sinkVars, errVars>>

\* mutant: the 404 names the route instead of the supplier
NoDataFoundForEndpoint(r) ==
  HTTPException(404, <<"No data found for supplier: ", endpoint[r]>>)

\* the HTTPException of `if not all_data`
NoDataFound(r) ==
  HTTPException(404, <<"No data found for supplier: ", supplier[r]>>)

\* `if not all_data: raise HTTPException(404, ...)`
CheckData(r) ==
  /\ pc[r] = "check"
  /\ Runs(r)
  /\ IF all_data[r] = <<>>
       THEN /\ http_exc' = [http_exc EXCEPT ![r] = NoDataFound(r)]
            /\ Goto(r, "http_exc")
       ELSE /\ Goto(r, "write")
            /\ UNCHANGED http_exc
  /\ UNCHANGED <<reqVars, fetchVars, sinkVars, exc, response, trace, posted>>

\* `with open(filename, 'w') ...: writer.writerows(csv_data)` once csv_data
\* has been built: the projection may have raised, and so may open()
SinkWrite(r, projection) ==
  \E disk \in {"ok", "OSError"} :
    LET raised == IF projection.raised # "" THEN projection.raised
                  ELSE IF disk = "ok" THEN "" ELSE disk
    IN  IF raised = ""
          THEN /\ csv_rows' = [csv_rows EXCEPT ![r] = projection.rows]
               /\ files' = [files EXCEPT ![filename(r)] = CsvEncode(projection.rows)]
               /\ writeResult' = [writeResult EXCEPT ![r] = "True"]
               /\ Goto(r, "upload")
               /\ UNCHANGED exc
          ELSE /\ writeResult' = [writeResult EXCEPT ![r] = "raised"]
               /\ exc' = [exc EXCEPT ![r] = raised]
               /\ Goto(r, "except")
               /\ UNCHANGED <<csv_rows, files>>

\* process_products: `if not write_to_csv(all_data, filename): raise ...`
WritePricesCsv(r) ==
  /\ pc[r] = "write"
  /\ endpoint[r] = "/process-products"
  /\ Runs(r)
  /\ Step(r, "WRITE")
  /\ IF all_data[r] = <<>>
       THEN /\ writeResult' = [writeResult EXCEPT ![r] = "False"]
            /\ http_exc' = [http_exc EXCEPT ![r] =
                              HTTPException(500, <<"Failed to create CSV file">>)]
            /\ Goto(r, "http_exc")
            /\ UNCHANGED <<csv_rows, files, exc>>
       ELSE /\ SinkWrite(r, PriceProjection(all_data[r]))
            /\ UNCHANGED http_exc
  /\ UNCHANGED <<reqVars, fetchVars, ftpResult, uploaded, response, posted>>

\* fetch_products: the inline projection and file write
WriteProductsCsv(r) ==
  /\ pc[r] = "write"
  /\ endpoint[r] = "/fetch-products"
  /\ Runs(r)
  /\ Step(r, "WRITE")
  /\ SinkWrite(r, DetailProjection(all_data[r]))
  /\ UNCHANGED <<reqVars, fetchVars, ftpResult, uploaded, http_exc, response, posted>>

FtpSteps == {"connect", "login", "cwd", "store"}

\* mutant: the failure path removes the local file before raising
UploadFailedCleans(r) ==
  /\ http_exc' = [http_exc EXCEPT ![r] =
                    HTTPException(500, <<"Failed to upload file to FTP">>)]
  /\ files' = [files EXCEPT ![filename(r)] = NoFile]
  /\ Goto(r, "http_exc")

\* `if not upload_to_ftp(...): raise HTTPException(500, ...)`
UploadFailed(r) ==
  /\ http_exc' = [http_exc EXCEPT ![r] =
                    HTTPException(500, <<"Failed to upload file to FTP">>)]
  /\ files' = files
  /\ Goto(r, "http_exc")

\* upload_to_ftp: connect, login, cwd, open the local file, STOR; an
\* exception at any of these steps is caught and turned into False
upload_to_ftp(r, failing) ==
  IF failing \in FtpSteps THEN FALSE
  ELSE files[filename(r)] # NoFile

Upload(r) ==
  /\ pc[r] = "upload"
  /\ Runs(r)
  /\ Step(r, "UPLOAD")
  /\ \E failing \in FtpSteps \cup {"none"} :
       LET result == upload_to_ftp(r, failing)
       IN  /\ ftpResult' = [ftpResult EXCEPT ![r] = IF result THEN "True" ELSE "False"]
           /\ IF result
                THEN /\ uploaded' = [uploaded EXCEPT ![r] = files[filename(r)]]
                     /\ Goto(r, "cleanup")
                     /\ UNCHANGED <<http_exc, files>>
                ELSE /\ UploadFailed(r)
                     /\ UNCHANGED uploaded
  /\ UNCHANGED <<reqVars, fetchVars, csv_rows, writeResult, exc, response, posted>>

\* mutant: process_products answers right after the cleanup as well
AfterCleanupSilent(r) == "respond"

\* what follows the cleanup block: process_products posts the success
\* message, fetch_products goes straight to its return statement
AfterCleanup(r) ==
  IF endpoint[r] = "/process-products" THEN "notify" ELSE "respond"

\* `try: os.remove(filename) except Exception: (logged only)`
Cleanup(r) ==
  /\ pc[r] = "cleanup"
  /\ Runs(r)
  /\ Step(r, "CLEANUP")
  /\ \E removed \in BOOLEAN :
       files' = IF removed /\ files[filename(r)] # NoFile
                  THEN [files EXCEPT ![filename(r)] = NoFile]
                  ELSE files
  /\ Goto(r, AfterCleanup(r))
  /\ UNCHANGED <<reqVars, fetchVars, csv_rows, writeResult, ftpResult, uploaded,
                 errVars, posted>>

\* process_products: send_to_slack(SLACK_WEBHOOK_URL, success_message)
NotifySuccess(r) ==
  /\ pc[r] = "notify"
  /\ Runs(r)
  /\ Step(r, "NOTIFY")
  /\ send_to_slack(r, "success")
  /\ Goto(r, "respond")
  /\ UNCHANGED <<reqVars, fetchVars, sinkVars, errVars>>

\* the handler's return statement
Respond(r) ==
  /\ pc[r] = "respond"
  /\ Runs(r)
  /\ response' = [response EXCEPT ![r] =
                    [status |-> 200, supplier |-> supplier[r],
                     filename |-> filename(r), total_pages |-> Len(all_data[r]),
                     state |-> "completed"]]
  /\ Goto(r, "done")
  /\ UNCHANGED <<reqVars, fetchVars, sinkVars, exc, http_exc, trace, posted>>

\* `except HTTPException: raise`
ReRaise(r) ==
  /\ pc[r] = "http_exc"
  /\ Runs(r)
  /\ response' = [response EXCEPT ![r] = http_exc[r]]
  /\ Goto(r, "done")
  /\ UNCHANGED <<reqVars, fetchVars, sinkVars, exc, http_exc, trace, posted>>

\* mutant: the generic handler answers without telling the webhook
HandleExceptionSilent(r) ==
  /\ pc[r] = "except"
  /\ Runs(r)
  /\ response' = [response EXCEPT ![r] =
                    HTTPException(500, <<"Internal server error: ", exc[r]>>)]
  /\ Goto(r, "done")
  /\ UNCHANGED <<reqVars, fetchVars, sinkVars, exc, http_exc, trace, posted>>

\* `except Exception as e:` failure message to the webhook, then the 500
HandleException(r) ==
  /\ pc[r] = "except"
  /\ Runs(r)
  /\ send_to_slack(r, "failure")
  /\ response' = [response EXCEPT ![r] =
                    HTTPException(500, <<"Internal server error: ", exc[r]>>)]
  /\ Goto(r, "done")
  /\ UNCHANGED <<reqVars, fetchVars, sinkVars, exc, http_exc, trace>>

Next ==
  \E r \in Requests :
    \/ Receive(r)
    \/ GenerateToken(r)
    \/ IssueGet(r)
    \/ GetPage(r)
    \/ GetEmpty(r)
    \/ GetFailedRetry(r)
    \/ GetFailedBreak(r)
    \/ Summary(r)
    \/ CheckData(r)
    \/ WritePricesCsv(r)
    \/ WriteProductsCsv(r)
    \/ Upload(r)
    \/ Cleanup(r)
    \/ NotifySuccess(r)
    \/ Respond(r)
    \/ ReRaise(r)
    \/ HandleException(r)

Spec == Init /\ [][Next]_vars

TypeOK ==
  /\ running \in Requests \cup {NoOne}
  /\ \A r \in Requests : Len(all_data[r]) = page[r]

Range(seq) == {seq[i] : i \in 1..Len(seq)}
Increasing(seq) == \A i, j \in 1..Len(seq) : i < j => seq[i] < seq[j]
InternalError(r) == HTTPException(500, <<"Internal server error: ", exc[r]>>)
FtpFailure == HTTPException(500, <<"Failed to upload file to FTP">>)
CsvFailure == HTTPException(500, <<"Failed to create CSV file">>)
InLoop(r) == pc[r] \in {"loop", "awaiting"}

\* ------------------------------------------------------------------- C1
\* C1: whenever the loop of fetch_all_data stops because a page fetch failed,
\* that page was attempted exactly 5 times, with increasing waits of at most
\* 10 seconds between the attempts.
C1_FiveAttemptsBeforeStop ==
  \A r \in Requests :
    lastGet[r] = "fail" =>
      /\ attempt[r] = StopMaxAttempt
      /\ Len(waits[r]) = StopMaxAttempt - 1
      /\ Increasing(waits[r])
      /\ \A i \in 1..Len(waits[r]) : waits[r][i] <= WaitMax

\* ------------------------------------------------------------------- C2
\* C2 as stated: every request that ended in an error response has posted a
\* failure message to the webhook.
C2_EveryErrorNotified ==
  \A r \in Requests :
    response[r].status >= 400 => "failure" \in Range(posted[r])

\* C2 amended: an error response produced by the generic exception handler
\* (auth failure, unexpected exception) comes after a failure message to the
\* webhook; an error response that is a re-raised HTTPException (404 for
\* zero pages, the fixed 500s) comes without any failure message.
C2_GenericErrorsNotified ==
  \A r \in Requests :
    response[r].status >= 400 =>
      IF response[r].detail[1] = "Internal server error: "
        THEN /\ posted[r] # <<>>
             /\ posted[r][Len(posted[r])] = "failure"
        ELSE "failure" \notin Range(posted[r])

C2_Witness ==
  \E r, q \in Requests :
    /\ response[r].status = 500 /\ response[r] = InternalError(r)
    /\ "failure" \in Range(posted[r])
    /\ response[q].status = 404

\* ------------------------------------------------------------------- C3
SixSteps == <<"AUTH", "FETCH", "WRITE", "UPLOAD", "CLEANUP", "NOTIFY">>

\* C3 as stated: on both routes a success response comes after the six steps
\* AUTH, FETCH, WRITE, UPLOAD, CLEANUP, NOTIFY in that order and a success
\* message to the webhook.
C3_SuccessNotified ==
  \A r \in Requests :
    response[r].status = 200 =>
      /\ trace[r] = SixSteps
      /\ "success" \in Range(posted[r])

\* C3 amended: a success response of /process-products comes after the six
\* steps in order, each once, the success message being the last post; a
\* success response of /fetch-products comes after AUTH, FETCH, WRITE,
\* UPLOAD, CLEANUP in order, each once, and without any success message.
C3_SuccessSteps ==
  \A r \in Requests :
    response[r].status = 200 =>
      IF endpoint[r] = "/process-products"
        THEN /\ trace[r] = SixSteps
             /\ posted[r] = <<"summary", "success">>
        ELSE /\ trace[r] = SubSeq(SixSteps, 1, 5)
             /\ posted[r] = <<"summary">>

C3_Witness ==
  \E r, q \in Requests :
    /\ response[r].status = 200 /\ endpoint[r] = "/process-products"
    /\ response[q].status = 200 /\ endpoint[q] = "/fetch-products"

\* ------------------------------------------------------------------- C4
\* the rows the claim expects: one per variant with a non-empty EAN, paired
\* with suppliers[0].price of the product owning the variant
RECURSIVE ExpectedVariantRows(_, _)
ExpectedVariantRows(variants, price) ==
  IF variants = <<>> THEN <<>>
  ELSE LET ean == Get(Head(variants), "article_ean", None)
       IN  (IF Truthy(ean) THEN <<<<ean, price>>>> ELSE <<>>)
             \o ExpectedVariantRows(Tail(variants), price)

RECURSIVE ExpectedItemRows(_)
ExpectedItemRows(items) ==
  IF items = <<>> THEN <<>>
  ELSE ExpectedVariantRows(Get(Head(items), "variants_list", <<>>),
                           FirstSupplierField(Head(items), "price", None))
         \o ExpectedItemRows(Tail(items))

\* C4: once the price projection has run, the request has written the header
\* followed by exactly one row per variant with a non-empty EAN, each with
\* the first supplier's price of the variant's own product, in page,
\* product, variant order.
C4_PriceRowsOfOwnProduct ==
  \A r \in Requests :
    (endpoint[r] = "/process-products" /\ writeResult[r] = "True") =>
      csv_rows[r] = <<PriceHeader>> \o ExpectedItemRows(Flatten(all_data[r]))

\* ------------------------------------------------------------------- C5
EveryProductHasSupplier(data) ==
  \A i \in 1..Len(Flatten(data)) :
    Len(Get(Flatten(data)[i], "suppliers", <<>>)) > 0

\* C5: the detail projection over products that all have a supplier never
\* raises, whatever optional variant fields (German name, German category
\* list, multimedia entry) are missing or empty.
C5_DetailNeverRaises ==
  \A r \in Requests :
    (endpoint[r] = "/fetch-products" /\ writeResult[r] # "none"
       /\ EveryProductHasSupplier(all_data[r])) =>
      exc[r] \notin {"IndexError", "UnboundLocalError"}

\* ------------------------------------------------------------------- C6
\* C6: when upload_to_ftp fails, whatever FTP step failed, the handler raises
\* the 500 "Failed to upload file to FTP" and that is the response; no
\* cleanup is attempted; and when the response goes out the local file still
\* holds the CSV the request wrote.
C6_UploadFailureKeepsFile ==
  /\ [](\A r \in Requests :
          ftpResult[r] = "False" =>
            /\ "CLEANUP" \notin Range(trace[r])
            /\ pc[r] \in {"http_exc", "done"}
            /\ http_exc[r] = FtpFailure
            /\ pc[r] = "done" => response[r] = FtpFailure)
  /\ [][\A r \in Requests :
          (ftpResult'[r] = "False" /\ response'[r] # response[r]) =>
            /\ files'[filename(r)] # NoFile
            /\ files'[filename(r)] = CsvEncode(csv_rows[r])]_vars

C6_Witness ==
  \E r, q \in Requests :
    /\ endpoint[r] = "/process-products" /\ endpoint[q] = "/fetch-products"
    /\ response[r] = FtpFailure /\ response[q] = FtpFailure
    /\ files[filename(r)] # NoFile /\ files[filename(q)] # NoFile

\* ------------------------------------------------------------------- C7
\* C7: on both routes, a request whose fetch step returned zero pages is
\* answered with a 404 whose detail names the request's supplier.
C7_ZeroPages404 ==
  \A r \in Requests :
    (pc[r] = "done" /\ "FETCH" \in Range(trace[r]) /\ all_data[r] = <<>>) =>
      response[r] =
        [status |-> 404, detail |-> <<"No data found for supplier: ", supplier[r]>>]

C7_Witness ==
  \E r, q \in Requests :
    /\ endpoint[r] = "/process-products" /\ endpoint[q] = "/fetch-products"
    /\ supplier[r] # supplier[q]
    /\ response[r].status = 404 /\ response[q].status = 404

\* ------------------------------------------------------------------- C8
\* C8: a CSV step that did not succeed ended with the return value False,
\* never with an exception, and the request was answered with the fixed 500
\* "Failed to create CSV file".
C8_WriteFailureIsFalse ==
  \A r \in Requests :
    (pc[r] = "done" /\ writeResult[r] \notin {"none", "True"}) =>
      /\ writeResult[r] = "False"
      /\ response[r] = CsvFailure

\* ------------------------------------------------------------------- C9
\* C9: the non-error responses were asked for with the indices 0, 1, 2, ...
\* in that order; all_data is exactly the responses before the first empty
\* one, in index order; a GET goes out only while no page was answered empty
\* and no page fetch has failed, and it carries the index after the last
\* collected page; once the loop has stopped, on an empty page or on a failed
\* fetch, fetch_all_data returns normally.
C9_PagesInOrderUntilStop ==
  /\ [](\A r \in Requests :
          /\ \A i \in 1..Len(served[r]) : served[r][i].page = i - 1
          /\ Len(all_data[r]) <= Len(served[r])
          /\ \A i \in 1..Len(all_data[r]) :
               /\ all_data[r][i] = served[r][i].data
               /\ served[r][i].data # <<>>
          /\ Len(served[r]) > Len(all_data[r]) =>
               /\ Len(served[r]) = Len(all_data[r]) + 1
               /\ served[r][Len(served[r])].data = <<>>
               /\ lastGet[r] = "empty"
          /\ lastGet[r] \in {"empty", "fail"} =>
               /\ ~InLoop(r)
               /\ pc[r] # "summary" => "FETCH" \in Range(trace[r]))
  /\ [][\A r \in Requests :
          /\ (pc'[r] = "awaiting" /\ pc[r] # "awaiting") =>
               /\ lastGet[r] \in {"none", "ok"}
               /\ reqPage'[r] = Len(all_data[r])
          /\ reqPage'[r] # reqPage[r] =>
               /\ pc'[r] = "awaiting"
               /\ reqPage'[r] = reqPage[r] + 1]_vars

C9_Witness ==
  \E r, q \in Requests :
    /\ lastGet[r] = "fail" /\ Len(all_data[r]) = 1 /\ response[r].status = 200
    /\ lastGet[q] = "empty" /\ Len(all_data[q]) = MaxPages /\ pc[q] = "check"

\* ------------------------------------------------------------------ C10
\* C10: while a request is between its CSV write and its local-file
\* deletion it holds the event loop and no other request takes a step; the
\* file it uploads and deletes holds the rows it wrote itself, and the file
\* is there when the upload opens it.
C10_NoInterference ==
  /\ [](\A r \in Requests :
          /\ pc[r] \in {"upload", "cleanup"} => running = r
          /\ pc[r] = "upload" =>
               /\ files[filename(r)] # NoFile
               /\ files[filename(r)] = CsvEncode(csv_rows[r])
          /\ uploaded[r] # NoFile => uploaded[r] = CsvEncode(csv_rows[r]))
  /\ [][\A r, q \in Requests :
          (r # q /\ pc[r] \in {"upload", "cleanup"}) =>
            /\ pc'[q] = pc[q]
            /\ trace'[q] = trace[q]]_vars

C10_Witness ==
  \E r, q \in Requests :
    /\ r # q
    /\ endpoint[r] = endpoint[q] /\ supplier[r] = supplier[q]
    /\ pc[r] = "cleanup" /\ pc[q] = "awaiting"
    /\ all_data[r] # all_data[q]
    /\ Len(all_data[q]) > 0

====
